---- MODULE Spec2Model ----
(***************************************************************************)
(* A model of the multilayer perceptron of                                 *)
(* "07 - ANNs II/python/07_mlp_example.py": the MLP class (constructor,    *)
(* activate, backActivate, gradientDescent) and the free function mse.     *)
(*                                                                         *)
(* Numbers.  The program computes in floating point.  The model computes   *)
(* on a grid: the integer n stands for the number n / Scale, products are  *)
(* rounded back to the grid, and exp is summed as a power series in        *)
(* integers of Precision units.                                            *)
(*                                                                         *)
(* Arrays.  A numpy array is a reference to a buffer; mem maps every       *)
(* allocated buffer to its contents, and activations[i] and errors[i] are  *)
(* buffer references, so that two names of one buffer see each other's     *)
(* writes.  A local array value is a record [nd, v]: nd is its number of   *)
(* dimensions (0 a scalar, 1 a vector, 2 a matrix of one row) and v its    *)
(* elements.                                                               *)
(***************************************************************************)
EXTENDS Integers, Sequences, FiniteSets, TLC

VARIABLES
    net,    \* the MLP object, NoNet before it is constructed
    last,   \* the last call: its name, argument, whether it raised, what it returned
    nGD,    \* the number of gradientDescent calls made
    prev,   \* history: the call before the last one
    fwd,    \* history: what the activate calls last wrote to each activations[i]
    memo    \* history: one earlier activate call and its result

vars == <<net, last, nGD, prev, fwd, memo>>

-----------------------------------------------------------------------------
(* Bounds of the model *)

\* the grid: n stands for n / Scale
Scale == 100
\* the units of the power series of exp
Precision == 2 ^ 15
\* the longest input vector handed to activate
MaxInLen == 3
\* the number of gradientDescent calls in one run
MaxGD == 1
\* the number of seeds of the random generator
NumSeeds == 2
\* the largest layer size and the most hidden layers handed to the constructor
MaxSize == 1
MaxHidden == 2
\* the longest vector handed to mse
MaxVecLen == 2

\* the elements of the inputs of activate: 0.0 and 1.0
InputValues == {0, Scale}
\* the elements of the errors of backActivate: -0.25 and 0.5
ErrorValues == {-(Scale \div 4), Scale \div 2}
\* the learning rates: 0.1 and the default 1
Rates == {Scale \div 10, Scale}
\* the elements of the vectors of mse
LossValues == {-Scale, 0, Scale}

-----------------------------------------------------------------------------
(* Arithmetic on the grid *)

\* n / d rounded to the nearest integer
Round(n, d) == (2 * n + d) \div (2 * d)

\* the product of two grid numbers
Mul(a, b) == Round(a * b, Scale)

Abs(x) == IF x < 0 THEN -x ELSE x

RECURSIVE SumSeq(_)
SumSeq(s) == IF s = <<>> THEN 0 ELSE Head(s) + SumSeq(Tail(s))

RECURSIVE ExpSeries(_, _, _, _)
\* the sum over n of (-x/Scale)^n / n!, in Precision units, for x >= 0
ExpSeries(x, n, term, acc) ==
    IF term = 0 THEN acc
    ELSE LET t == (term * x) \div (Scale * n)
         IN ExpSeries(x, n + 1, t, IF n % 2 = 1 THEN acc - t ELSE acc + t)

\* exp(-x / Scale) in Precision units, for x >= 0
ExpNeg(x) == ExpSeries(x, 1, Precision, Precision)

\* beyond 4.0 the sigmoid is 0 or 1 on the grid
Clamp(x) == IF x > 4 * Scale THEN 4 * Scale ELSE IF x < -(4 * Scale) THEN -(4 * Scale) ELSE x

\* y = 1.0 / (1 + np.exp(-x)), for one element
SigmoidTable == [x \in -(4 * Scale) .. 4 * Scale |->
                    LET e == ExpNeg(Abs(x))
                    IN IF x >= 0 THEN Round(Scale * Precision, Precision + e)
                       ELSE Round(Scale * e, Precision + e)]

_sigmoid(x) == SigmoidTable[Clamp(x)]

\* x * (1.0 - x), for one element
_sigmoidPrime(x) == Mul(x, Scale - x)

-----------------------------------------------------------------------------
(* Arrays *)

\* what a call that raises, or returns None, returns
NoValue == [nd |-> 0, v |-> <<>>]

\* np.zeros(n)
Zeros(n) == [j \in 1 .. n |-> 0]

\* a[:] as a copy, which a[:] is of a list: a buffer of its own
SliceCopy(buf, fresh) == fresh

\* the buffer behind a[:], fresh being the next unused buffer: basic slicing of
\* an ndarray returns a view, so the slice names the buffer of a itself
SliceAll(buf, fresh) == buf

\* the assignment dst[:] = value for a destination of shape (n,): whether value
\* broadcasts to (n,), and the elements stored.  A scalar and a one-element
\* value fill the destination; leading dimensions of size one (a matrix of one
\* row) are dropped.
Broadcast(value, n) ==
    IF value.nd = 0 THEN [ok |-> TRUE, v |-> [j \in 1 .. n |-> value.v[1]]]
    ELSE IF Len(value.v) = n THEN [ok |-> TRUE, v |-> value.v]
    ELSE IF Len(value.v) = 1 THEN [ok |-> TRUE, v |-> [j \in 1 .. n |-> value.v[1]]]
    ELSE [ok |-> FALSE, v |-> <<>>]

\* np.dot(v, W) for a vector v and a matrix W of Len(v) rows and cols columns
Dot(v, W, cols) == [k \in 1 .. cols |-> SumSeq([j \in 1 .. Len(v) |-> Mul(v[j], W[j][k])])]

\* np.dot(delta, W.T) for a vector delta and a matrix W of rows rows
DotT(delta, W, rows) ==
    [j \in 1 .. rows |-> SumSeq([k \in 1 .. Len(delta) |-> Mul(delta[k], W[j][k])])]

-----------------------------------------------------------------------------
(* The constructor *)

NoNet == [layers |-> <<>>]

\* layers = [numInputs] + list(hiddenLayers) + [numOutputs]
Layers(numInputs, hiddenLayers, numOutputs) == <<numInputs>> \o hiddenLayers \o <<numOutputs>>

NonNeg(n) == IF n < 0 THEN 0 ELSE n

\* the number of elements np.random.rand draws for the layers
NumWeights(layers) ==
    SumSeq([i \in 1 .. Len(layers) - 1 |-> NonNeg(layers[i]) * NonNeg(layers[i + 1])])

\* the draws of np.random.rand, in the order they are made, for each seed of
\* the generator: values of [0, 1)
RandStreams(layers) ==
    {[n \in 1 .. NumWeights(layers) |-> (37 * seed + 61 * n) % Scale] : seed \in 1 .. NumSeeds}

\* the index in the stream of the first draw of weights[i]
Offset(layers, i) == NumWeights(SubSeq(layers, 1, i))

\* MLP(numInputs, hiddenLayers, numOutputs), with rand the values np.random.rand
\* draws: the object, or raised when numpy refuses a negative dimension
MLPInit(numInputs, hiddenLayers, numOutputs, rand) ==
    LET layers == Layers(numInputs, hiddenLayers, numOutputs)
        n == Len(layers)
    IN IF \E i \in 1 .. n : layers[i] < 0
       THEN [raised |-> TRUE, net |-> NoNet]
       ELSE [raised |-> FALSE,
             net |-> [layers |-> layers,
                      weights |-> [i \in 1 .. n - 1 |->
                                     [j \in 1 .. layers[i] |->
                                        [k \in 1 .. layers[i + 1] |->
                                           rand[Offset(layers, i)
                                                + (j - 1) * layers[i + 1] + k]]]],
                      activations |-> [i \in 1 .. n |-> i],
                      errors |-> [i \in 1 .. n |-> SliceAll(i, n + i)],
                      mem |-> [b \in {i : i \in 1 .. n}
                                     \cup {SliceAll(i, n + i) : i \in 1 .. n} |->
                                 Zeros(layers[IF b > n THEN b - n ELSE b])],
                      derivatives |-> [i \in 1 .. n - 1 |->
                                         [j \in 1 .. layers[i] |-> Zeros(layers[i + 1])]]]]

\* self.activations[i] and self.errors[i], read through their buffers
Activations(nt) == [i \in 1 .. Len(nt.activations) |-> nt.mem[nt.activations[i]]]
Errors(nt) == [i \in 1 .. Len(nt.errors) |-> nt.mem[nt.errors[i]]]

-----------------------------------------------------------------------------
(* activate *)

RECURSIVE Forward(_, _, _)
\* the loop of activate from transition i on, activation being the local
\* variable: the object as the call leaves it, whether it raised, what it
\* returns, and the number of activations[..] it has written
Forward(nt, activation, i) ==
    IF i > Len(nt.weights)
    THEN [net |-> nt, raised |-> FALSE, ret |-> activation, written |-> i]
    ELSE LET rows == nt.layers[i]
             cols == nt.layers[i + 1]
             W == nt.weights[i]
             stop == [net |-> nt, raised |-> TRUE, ret |-> NoValue, written |-> i]
         IN IF activation.nd = 0
            THEN \* scalar * W has the shape of W, which fits activations[i+1]
                 \* only when W has one row
                 IF rows # 1 THEN stop
                 ELSE LET a == [nd |-> 2,
                                v |-> [k \in 1 .. cols |->
                                         _sigmoid(Mul(activation.v[1], W[1][k]))]]
                      IN Forward([nt EXCEPT !.mem[nt.activations[i + 1]] = a.v], a, i + 1)
            ELSE IF Len(activation.v) # rows THEN stop
            ELSE LET d == Dot(activation.v, W, cols)
                     a == [nd |-> activation.nd, v |-> [k \in 1 .. cols |-> _sigmoid(d[k])]]
                 IN Forward([nt EXCEPT !.mem[nt.activations[i + 1]] = a.v], a, i + 1)

\* activate adding the input to the cached one and feeding the sum forward
activateAccumulate(nt, input) ==
    LET b == Broadcast(input, nt.layers[1])
        sum == [j \in 1 .. nt.layers[1] |-> nt.mem[nt.activations[1]][j] + b.v[j]]
    IN IF ~b.ok
       THEN [net |-> nt, raised |-> TRUE, ret |-> NoValue, written |-> 0]
       ELSE Forward([nt EXCEPT !.mem[nt.activations[1]] = sum], [nd |-> 1, v |-> sum], 1)

\* MLP.activate(input)
activate(nt, input) ==
    LET b == Broadcast(input, nt.layers[1])
    IN IF ~b.ok
       THEN [net |-> nt, raised |-> TRUE, ret |-> NoValue, written |-> 0]
       ELSE Forward([nt EXCEPT !.mem[nt.activations[1]] = b.v], input, 1)

-----------------------------------------------------------------------------
(* gradientDescent *)

\* gradientDescent stepping against the derivatives
gradientDescentSub(nt, learningRate) ==
    [net |-> [nt EXCEPT !.weights =
                 [i \in 1 .. Len(nt.weights) |->
                    [j \in 1 .. nt.layers[i] |->
                       [k \in 1 .. nt.layers[i + 1] |->
                          nt.weights[i][j][k]
                          - Mul(nt.derivatives[i][j][k], learningRate)]]]],
     raised |-> FALSE, ret |-> NoValue]

\* MLP.gradientDescent(learningRate)
gradientDescent(nt, learningRate) ==
    [net |-> [nt EXCEPT !.weights =
                 [i \in 1 .. Len(nt.weights) |->
                    [j \in 1 .. nt.layers[i] |->
                       [k \in 1 .. nt.layers[i + 1] |->
                          nt.weights[i][j][k]
                          + Mul(nt.derivatives[i][j][k], learningRate)]]]],
     raised |-> FALSE, ret |-> NoValue]

-----------------------------------------------------------------------------
(* backActivate *)

RECURSIVE Backward(_, _, _)
\* the loop of backActivate from transition i down, error being the local
\* variable
Backward(nt, error, i) ==
    IF i = 0 THEN [net |-> nt, raised |-> FALSE, ret |-> [nd |-> 1, v |-> error]]
    ELSE LET activation == nt.mem[nt.activations[i + 1]]
             delta == [k \in 1 .. Len(error) |-> Mul(error[k], _sigmoidPrime(activation[k]))]
             propagated == DotT(delta, nt.weights[i], nt.layers[i])
         IN Backward([nt EXCEPT !.derivatives[i] = [j \in 1 .. nt.layers[i] |-> delta],
                                !.mem[nt.errors[i]] = propagated],
                     propagated, i - 1)

\* backActivate applying the derivatives to the weights itself
backActivateFused(nt, error) ==
    LET r == Backward([nt EXCEPT !.mem[nt.errors[Len(nt.errors)]] = error], error,
                      Len(nt.weights))
    IN [r EXCEPT !.net = gradientDescent(r.net, Scale).net]

\* MLP.backActivate(error), for a vector error of numOutputs elements
backActivate(nt, error) ==
    Backward([nt EXCEPT !.mem[nt.errors[Len(nt.errors)]] = error], error, Len(nt.weights))

-----------------------------------------------------------------------------
(* mse *)

\* mse without the square
mseNoSquare(target, output) ==
    [num |-> SumSeq([k \in 1 .. Len(target) |-> target[k] - output[k]]),
     den |-> Len(target)]

\* np.average((target - output) ** 2, axis=0) for two vectors of one length,
\* as the exact fraction num / den of squared grid units
mse(target, output) ==
    [num |-> SumSeq([k \in 1 .. Len(target) |-> (target[k] - output[k]) * (target[k] - output[k])]),
     den |-> Len(target)]

-----------------------------------------------------------------------------
(* The calls a caller can make *)

\* the network of the runs: MLP(2, (2,), 1)
Topology == [numInputs |-> 2, hiddenLayers |-> <<2>>, numOutputs |-> 1]

Vectors(n, values) == [1 .. n -> values]

\* a scalar, a vector of numInputs elements, or a vector of another length up to
\* MaxInLen (all its elements the same)
Inputs ==
    {[nd |-> 0, v |-> <<x>>] : x \in InputValues}
    \cup {[nd |-> 1, v |-> s] : s \in Vectors(Topology.numInputs, InputValues)}
    \cup {[nd |-> 1, v |-> [j \in 1 .. n |-> x]] : n \in 1 .. MaxInLen, x \in InputValues}

Call(op, arg, r) == [op |-> op, arg |-> arg, raised |-> r.raised, ret |-> r.ret]

Pending(arg) == [op |-> "pending", arg |-> arg, raised |-> FALSE, ret |-> NoValue]

NoMemo == [x |-> NoValue, out |-> NoValue, old |-> FALSE, back |-> FALSE]

\* the state after mlp = MLP(2, (2,), 1)
Init ==
    /\ \E rand \in RandStreams(Layers(Topology.numInputs, Topology.hiddenLayers,
                                      Topology.numOutputs)) :
          net = MLPInit(Topology.numInputs, Topology.hiddenLayers,
                        Topology.numOutputs, rand).net
    /\ last = [op |-> "__init__", arg |-> Topology, raised |-> FALSE, ret |-> NoValue]
    /\ nGD = 0
    /\ prev = [op |-> "none", raised |-> FALSE]
    /\ fwd = Activations(net)
    /\ memo = NoMemo

\* mlp.activate(input)
Activate(input) ==
    LET r == activate(net, input)
    IN /\ net' = r.net
       /\ last' = Call("activate", input, r)
       /\ UNCHANGED nGD

\* mlp.backActivate(error)
BackActivate(error) ==
    LET r == backActivate(net, error)
    IN /\ net' = r.net
       /\ last' = Call("backActivate", error, r)
       /\ UNCHANGED nGD

\* mlp.gradientDescent(learningRate)
GradientDescent(learningRate) ==
    LET r == gradientDescent(net, learningRate)
    IN /\ nGD < MaxGD
       /\ net' = r.net
       /\ last' = Call("gradientDescent", learningRate, r)
       /\ nGD' = nGD + 1

\* history: the call before, and what activate wrote (the first r.written of
\* the activations)
Track(isActivate, written) ==
    /\ prev' = [op |-> last.op, raised |-> last.raised]
    /\ fwd' = [i \in 1 .. Len(fwd) |->
                 IF isActivate /\ i <= written THEN Activations(net')[i] ELSE fwd[i]]
    /\ UNCHANGED memo

Next ==
    \/ \E input \in Inputs : Activate(input) /\ Track(TRUE, activate(net, input).written)
    \/ \E error \in Vectors(Topology.numOutputs, ErrorValues) :
          BackActivate(error) /\ Track(FALSE, 0)
    \/ \E learningRate \in Rates : GradientDescent(learningRate) /\ Track(FALSE, 0)

Spec == Init /\ [][Next]_vars

-----------------------------------------------------------------------------
(* Runs that remember one activate call *)

\* history: an activate call that returned is remembered, or the call is one
\* after the remembered one (old: the remembered call is not the last call;
\* back: backActivate was called since)
Remember ==
    \/ /\ ~last'.raised
       /\ memo' = [x |-> last'.arg, out |-> last'.ret, old |-> FALSE, back |-> FALSE]
    \/ /\ memo' = [memo EXCEPT !.old = TRUE]

NextTwice ==
    \/ \E input \in Inputs : Activate(input) /\ Remember /\ UNCHANGED <<prev, fwd>>
    \/ \E error \in Vectors(Topology.numOutputs, ErrorValues) :
          /\ BackActivate(error)
          /\ memo' = IF memo = NoMemo THEN memo
                      ELSE [memo EXCEPT !.old = TRUE, !.back = TRUE]
          /\ UNCHANGED <<prev, fwd>>
    \/ \E learningRate \in Rates :
          GradientDescent(learningRate) /\ memo' = NoMemo /\ UNCHANGED <<prev, fwd>>

SpecTwice == Init /\ [][NextTwice]_vars

-----------------------------------------------------------------------------
(* Runs of the constructor *)

\* numInputs, hiddenLayers and numOutputs of -1 .. MaxSize, at most MaxHidden
\* hidden layers
Sizes == -1 .. MaxSize

Topologies ==
    [numInputs : Sizes,
     hiddenLayers : UNION {Vectors(n, Sizes) : n \in 0 .. MaxHidden},
     numOutputs : Sizes]

InitNew ==
    /\ net = NoNet
    /\ \E t \in Topologies : last = Pending(t)
    /\ nGD = 0
    /\ prev = [op |-> "none", raised |-> FALSE]
    /\ fwd = <<>>
    /\ memo = NoMemo

\* mlp = MLP(numInputs, hiddenLayers, numOutputs)
New ==
    /\ last.op = "pending"
    /\ \E rand \in RandStreams(Layers(last.arg.numInputs, last.arg.hiddenLayers,
                                      last.arg.numOutputs)) :
          LET r == MLPInit(last.arg.numInputs, last.arg.hiddenLayers,
                           last.arg.numOutputs, rand)
          IN /\ net' = r.net
             /\ last' = [op |-> "__init__", arg |-> last.arg, raised |-> r.raised,
                         ret |-> NoValue]
    /\ UNCHANGED <<nGD, prev, fwd, memo>>

SpecNew == InitNew /\ [][New]_vars

-----------------------------------------------------------------------------
(* Runs of mse *)

InitMse ==
    /\ net = NoNet
    /\ \E n \in 1 .. MaxVecLen :
          \E t \in Vectors(n, LossValues), o \in Vectors(n, LossValues) :
             last = Pending([target |-> t, output |-> o])
    /\ nGD = 0
    /\ prev = [op |-> "none", raised |-> FALSE]
    /\ fwd = <<>>
    /\ memo = NoMemo

\* mse(target, output)
Mse ==
    /\ last.op = "pending"
    /\ last' = [op |-> "mse", arg |-> last.arg, raised |-> FALSE,
                ret |-> mse(last.arg.target, last.arg.output)]
    /\ UNCHANGED <<net, nGD, prev, fwd, memo>>

SpecMse == InitMse /\ [][Mse]_vars

-----------------------------------------------------------------------------
(* The claims *)

Transitions == 1 .. Len(net.weights)

NonZero(matrices) ==
    \E i \in 1 .. Len(matrices) : \E j \in 1 .. Len(matrices[i]) :
       \E k \in 1 .. Len(matrices[i][j]) : matrices[i][j][k] # 0

\* the object with its weights, and its caches as the constructor leaves them
AsConstructed(nt) ==
    [nt EXCEPT !.mem = [b \in DOMAIN nt.mem |-> Zeros(Len(nt.mem[b]))],
               !.derivatives = [i \in 1 .. Len(nt.derivatives) |->
                                  [j \in 1 .. nt.layers[i] |-> Zeros(nt.layers[i + 1])]]]

\* the input does not have numInputs elements
WrongLength(input) ==
    IF input.nd = 0 THEN Topology.numInputs > 1 ELSE Len(input.v) # Topology.numInputs

\* C1: after activate(x) followed by backActivate(e), derivatives[i][j][k] =
\* a_i[j] * delta_i[k] for every transition i, where delta_i[k] =
\* errors[i+1][k] * y[k] * (1 - y[k]), y = a_(i+1), and a_i, a_(i+1) are the
\* outputs that activate(x) cached
C1_OuterProductGradient ==
    (last.op = "backActivate" /\ prev.op = "activate" /\ ~prev.raised) =>
        \A i \in Transitions : \A j \in 1 .. net.layers[i] : \A k \in 1 .. net.layers[i + 1] :
           net.derivatives[i][j][k]
              = Mul(fwd[i][j], Mul(Errors(net)[i + 1][k], _sigmoidPrime(fwd[i + 1][k])))

\* C2: in every state, every activations[i] holds what the most recent
\* activate call wrote to it (errors[i] is separate storage, so backActivate
\* leaves it alone)
C2_ActivationsKeepForwardPass ==
    \A i \in 1 .. Len(net.layers) : Activations(net)[i] = fwd[i]

\* C3: backActivate(e) on a freshly constructed network does not fail and
\* leaves every element of every derivatives[i] zero
C3_FreshBackActivateZero ==
    (last.op = "backActivate" /\ prev.op = "__init__") =>
        (~last.raised /\ ~NonZero(net.derivatives))

\* C4: gradientDescent(rate) replaces every weights[i][j][k] by
\* weights[i][j][k] + derivatives[i][j][k] * rate and changes nothing else
C4_GradientDescentAdds ==
    [][last'.op = "gradientDescent" =>
          /\ \A i \in Transitions : \A j \in 1 .. net.layers[i] :
                \A k \in 1 .. net.layers[i + 1] :
                   net'.weights[i][j][k]
                      = net.weights[i][j][k] + Mul(net.derivatives[i][j][k], last'.arg)
          /\ Activations(net') = Activations(net)
          /\ Errors(net') = Errors(net)
          /\ net'.derivatives = net.derivatives
          /\ net'.layers = net.layers]_vars

\* C4's case: gradientDescent has just applied derivatives that backActivate
\* left, not all of them zero
C4_Witness ==
    /\ last.op = "gradientDescent"
    /\ prev.op = "backActivate"
    /\ NonZero(net.derivatives)

\* C5: an activate call and a backActivate call leave every element of every
\* weights[i] as it was
C5_OnlyGradientDescentWrites ==
    [][last'.op \in {"activate", "backActivate"} => net'.weights = net.weights]_vars

\* C5's case: activate or backActivate has run on weights that gradientDescent
\* had updated
C5_Witness ==
    /\ last.op \in {"activate", "backActivate"}
    /\ prev.op = "gradientDescent"
    /\ NonZero(net.derivatives)

\* C6: activate(x) returns what an earlier activate(x) returned when no
\* gradientDescent call came between the two, whatever else did
C6_SameInputSameOutput ==
    (last.op = "activate" /\ ~last.raised /\ memo.x = last.arg) => last.ret = memo.out

\* C6's case: activate(x), then a backActivate call among others, then
\* activate(x) again
C6_Witness ==
    /\ last.op = "activate"
    /\ ~last.raised
    /\ memo.x = last.arg
    /\ memo.old
    /\ memo.back

\* C7: activate with an input whose length is not numInputs (a scalar
\* included, numInputs being 2) raises and leaves the weights, activations,
\* errors and derivatives as they were
C7_ShapeMismatchLeavesCaches ==
    [][(last'.op = "activate" /\ WrongLength(last'.arg)) =>
          (last'.raised /\ net' = net)]_vars

\* C8: the constructor raises, and produces no object, whenever numInputs < 1,
\* numOutputs < 1, a hidden layer size < 1 or hiddenLayers is empty
C8_InvalidTopologyRejected ==
    (/\ last.op = "__init__"
     /\ \/ last.arg.numInputs < 1
        \/ last.arg.numOutputs < 1
        \/ last.arg.hiddenLayers = <<>>
        \/ \E i \in 1 .. Len(last.arg.hiddenLayers) : last.arg.hiddenLayers[i] < 1)
    => (last.raised /\ net.layers = <<>>)

====
